---- MODULE Spec2Model ----
(***************************************************************************)
(* The axiom-marketplace program (escrow / transaction / dispute state     *)
(* machine) as a state machine.  Every instruction handler is an operator  *)
(* from the accounts it is handed to the accounts it leaves and the error  *)
(* it returns, written in the order of the handler's statements; an        *)
(* instruction is one atomic step that installs the handler's writes when  *)
(* it returns Ok(()) and nothing when it returns Err.                      *)
(*                                                                         *)
(* One seller owns the listing PDA (seeds: listing tag + seller), which    *)
(* has one escrow PDA (escrow tag + listing); each buyer has a transaction *)
(* PDA (transaction tag + buyer + listing) and each transaction a dispute  *)
(* PDA (dispute tag + transaction).  Fields that no handler reads and no   *)
(* claim mentions (bump, currency, rent_price, reason, resolution, the listing's created_at) are     *)
(* left out.                                                               *)
(*                                                                         *)
(* The axiom-staking program follows as a second state machine on          *)
(* variables of its own (SpecStaking); each specification leaves the       *)
(* other program's variables unchanged.                                    *)
(***************************************************************************)
EXTENDS Integers, Sequences, FiniteSets, TLC

VARIABLES
    now,          \* Clock::get().unix_timestamp
    listing,      \* AgentListing accounts, keyed by seller
    escrow,       \* Escrow accounts, keyed by listing
    transaction,  \* Transaction accounts, keyed by buyer (one listing)
    dispute,      \* Dispute accounts, keyed by transaction
    currency,     \* custody balances of the settlement currency
    nft,          \* custody of each agent NFT: the holder of the one unit
    lastCall,     \* the last instruction: name, caller, agent_mint, result
    sold,         \* a purchase_agent succeeded since the last create_listing
    paid,         \* currency moved escrow -> seller since the last create_listing
    stake_account,\* axiom-staking: the StakeAccount, <<>> before it is created
    token,        \* axiom-staking: AXIOM token balances (user, vault)
    stakeCall     \* axiom-staking: the last instruction, its amount and result

progVars == <<listing, escrow, transaction, dispute, currency, nft>>
stakeVars == <<stake_account, token, stakeCall>>
vars == <<now, listing, escrow, transaction, dispute, currency, nft,
          lastCall, sold, paid, stake_account, token, stakeCall>>

----------------------------------------------------------------------------
(* Bounds of the model. *)

MaxDays == 7
InitialFunds == 1500

UserTokens == 200      \* AXIOM tokens of the staking user
VaultReserve == 100    \* tokens the shared vault holds for other stake accounts

Seller == "seller"
Buyers == {"b1", "b2"}
Mints == {"m1", "m2"}
Prices == {1000, 1500}
EscrowCustody == "escrow"
Holders == Buyers \cup {Seller, EscrowCustody}

(* Program constants. *)
DAY == 24 * 60 * 60
ESCROW_RELEASE_PERIOD == 7 * 24 * 60 * 60
DISPUTE_PERIOD == 3 * 24 * 60 * 60


(* axiom-staking.  Token amounts are counted in units of 10u64.pow(9) base *)
(* units, so the minimum deployment stake 100 * 10u64.pow(9) is 100.       *)
MIN_AGENT_STAKE == 100
U8 == 256              \* active_agents: u8
User == "user"
Vault == "vault"
TokenHolders == {User, Vault}
StakeAmounts == {50, 100}

DefaultPubkey == "default"
NoMint == "none"
None == <<>>
Some(x) == <<x>>

(* The accounts of the program, bundled so that a handler is a function. *)
Accounts ==
    [listing |-> listing, escrow |-> escrow, transaction |-> transaction,
     dispute |-> dispute, currency |-> currency, nft |-> nft]

Ok(s) == [s |-> s, err |-> "Ok"]
Err(s, e) == [s |-> s, err |-> e]

----------------------------------------------------------------------------
(* AssetTransferGateway: transfer(from, to, id, amount).  It fails with    *)
(* InsufficientBalance when the source custody does not hold the amount.   *)

TransferCurrency(s, from, to, amount) ==
    IF s.currency[from] < amount
    THEN Err(s, "InsufficientBalance")
    ELSE Ok([s EXCEPT !.currency[from] = @ - amount,
                      !.currency[to] = @ + amount])

TransferNFT(s, mint, from, to) ==
    IF s.nft[mint] # from
    THEN Err(s, "InsufficientBalance")
    ELSE Ok([s EXCEPT !.nft[mint] = to])

----------------------------------------------------------------------------
(* The instruction handlers. *)

(* create_listing, initialising the escrow with the price as its amount.   *)
create_listing_priced(s, t, mint, agent_mint, price) ==
    LET s1 == [s EXCEPT
                 !.listing = (Seller :> [seller |-> Seller,
                                         mint |-> mint,
                                         price |-> price,
                                         status |-> "Active",
                                         escrow_account |-> Some(Seller)]),
                 !.escrow = (Seller :> [transaction |-> DefaultPubkey,
                                        amount |-> price,
                                        status |-> "Active",
                                        release_time |-> 0])]
    IN  TransferNFT(s1, agent_mint, Seller, EscrowCustody)

create_listing(s, t, mint, agent_mint, price) ==
    LET s1 == [s EXCEPT
                 !.listing = (Seller :> [seller |-> Seller,
                                         mint |-> mint,
                                         price |-> price,
                                         status |-> "Active",
                                         escrow_account |-> Some(Seller)]),
                 !.escrow = (Seller :> [transaction |-> DefaultPubkey,
                                        amount |-> 0,
                                        status |-> "Active",
                                        release_time |-> 0])]
    IN  TransferNFT(s1, agent_mint, Seller, EscrowCustody)

(* purchase_agent, with the release period and the dispute period swapped. *)
purchase_agent_swapped(s, t, b, agent_mint) ==
    IF Seller \notin DOMAIN s.listing \/ Seller \notin DOMAIN s.escrow
    THEN Err(s, "AccountNotInitialized")
    ELSE IF s.listing[Seller].status # "Active"
    THEN Err(s, "ListingNotActive")
    ELSE
    LET l == s.listing[Seller]
        tx == [buyer |-> b,
               seller |-> Seller,
               listing |-> Seller,
               amount |-> l.price,
               status |-> "Pending",
               created_at |-> t,
               completed_at |-> None,
               escrow_release_time |-> t + DISPUTE_PERIOD,
               dispute_deadline |-> t + ESCROW_RELEASE_PERIOD]
        s1 == [s EXCEPT
                 !.transaction = (b :> tx) @@ @,
                 !.escrow[Seller] = [@ EXCEPT !.transaction = b,
                                              !.amount = l.price,
                                              !.release_time = tx.escrow_release_time]]
        r1 == TransferCurrency(s1, b, EscrowCustody, l.price)
    IN  IF r1.err # "Ok" THEN r1
        ELSE TransferNFT(r1.s, agent_mint, EscrowCustody, b)

purchase_agent(s, t, b, agent_mint) ==
    IF Seller \notin DOMAIN s.listing \/ Seller \notin DOMAIN s.escrow
    THEN Err(s, "AccountNotInitialized")
    ELSE IF s.listing[Seller].status # "Active"
    THEN Err(s, "ListingNotActive")
    ELSE
    LET l == s.listing[Seller]
        tx == [buyer |-> b,
               seller |-> Seller,
               listing |-> Seller,
               amount |-> l.price,
               status |-> "Pending",
               created_at |-> t,
               completed_at |-> None,
               escrow_release_time |-> t + ESCROW_RELEASE_PERIOD,
               dispute_deadline |-> t + DISPUTE_PERIOD]
        s1 == [s EXCEPT
                 !.transaction = (b :> tx) @@ @,
                 !.escrow[Seller] = [@ EXCEPT !.transaction = b,
                                              !.amount = l.price,
                                              !.release_time = tx.escrow_release_time]]
        r1 == TransferCurrency(s1, b, EscrowCustody, l.price)
    IN  IF r1.err # "Ok" THEN r1
        ELSE TransferNFT(r1.s, agent_mint, EscrowCustody, b)

(* complete_transaction, with the release time compared by > for >=.      *)
complete_transaction_late(s, t, b) ==
    IF b \notin DOMAIN s.transaction \/ Seller \notin DOMAIN s.escrow
    THEN Err(s, "AccountNotInitialized")
    ELSE IF s.transaction[b].status # "Pending"
    THEN Err(s, "TransactionAlreadyCompleted")
    ELSE IF ~(t > s.escrow[Seller].release_time)
    THEN Err(s, "RefundPeriodNotElapsed")
    ELSE
    LET s1 == [s EXCEPT
                 !.transaction[b] = [@ EXCEPT !.status = "Completed",
                                              !.completed_at = Some(t)],
                 !.escrow[Seller] = [@ EXCEPT !.status = "Released"]]
    IN  TransferCurrency(s1, EscrowCustody, Seller, s1.escrow[Seller].amount)

complete_transaction(s, t, b) ==
    IF b \notin DOMAIN s.transaction \/ Seller \notin DOMAIN s.escrow
    THEN Err(s, "AccountNotInitialized")
    ELSE IF s.transaction[b].status # "Pending"
    THEN Err(s, "TransactionAlreadyCompleted")
    ELSE IF ~(t >= s.escrow[Seller].release_time)
    THEN Err(s, "RefundPeriodNotElapsed")
    ELSE
    LET s1 == [s EXCEPT
                 !.transaction[b] = [@ EXCEPT !.status = "Completed",
                                              !.completed_at = Some(t)],
                 !.escrow[Seller] = [@ EXCEPT !.status = "Released"]]
    IN  TransferCurrency(s1, EscrowCustody, Seller, s1.escrow[Seller].amount)

(* file_dispute, gated on Pending where the code gates on Completed.       *)
file_dispute_pending(s, t, b, complainant) ==
    IF b \notin DOMAIN s.transaction
    THEN Err(s, "AccountNotInitialized")
    ELSE IF s.transaction[b].status # "Pending"
    THEN Err(s, "TransactionAlreadyCompleted")
    ELSE IF ~(t <= s.transaction[b].dispute_deadline)
    THEN Err(s, "InvalidDisputeStatus")
    ELSE
    Ok([s EXCEPT
          !.dispute = (b :> [transaction |-> b,
                             complainant |-> complainant,
                             respondent |-> s.transaction[b].seller,
                             status |-> "Filed",
                             created_at |-> t,
                             resolved_at |-> None]) @@ @,
          !.transaction[b] = [@ EXCEPT !.status = "Disputed"]])

(* file_dispute, with the deadline compared by < for <=.                   *)
file_dispute_early(s, t, b, complainant) ==
    IF b \notin DOMAIN s.transaction
    THEN Err(s, "AccountNotInitialized")
    ELSE IF s.transaction[b].status # "Completed"
    THEN Err(s, "TransactionAlreadyCompleted")
    ELSE IF ~(t < s.transaction[b].dispute_deadline)
    THEN Err(s, "InvalidDisputeStatus")
    ELSE
    Ok([s EXCEPT
          !.dispute = (b :> [transaction |-> b,
                             complainant |-> complainant,
                             respondent |-> s.transaction[b].seller,
                             status |-> "Filed",
                             created_at |-> t,
                             resolved_at |-> None]) @@ @,
          !.transaction[b] = [@ EXCEPT !.status = "Disputed"]])

file_dispute(s, t, b, complainant) ==
    IF b \notin DOMAIN s.transaction
    THEN Err(s, "AccountNotInitialized")
    ELSE IF s.transaction[b].status # "Completed"
    THEN Err(s, "TransactionAlreadyCompleted")
    ELSE IF ~(t <= s.transaction[b].dispute_deadline)
    THEN Err(s, "InvalidDisputeStatus")
    ELSE
    Ok([s EXCEPT
          !.dispute = (b :> [transaction |-> b,
                             complainant |-> complainant,
                             respondent |-> s.transaction[b].seller,
                             status |-> "Filed",
                             created_at |-> t,
                             resolved_at |-> None]) @@ @,
          !.transaction[b] = [@ EXCEPT !.status = "Disputed"]])

(* resolve_dispute, accepting a dispute that is Filed.                     *)
resolve_dispute_filed(s, t, b, favor_complainant) ==
    IF b \notin DOMAIN s.transaction \/ b \notin DOMAIN s.dispute
    THEN Err(s, "AccountNotInitialized")
    ELSE IF s.dispute[b].status # "Filed"
    THEN Err(s, "InvalidDisputeStatus")
    ELSE
    LET s1 == [s EXCEPT !.dispute[b] = [@ EXCEPT !.status = "Resolved",
                                               !.resolved_at = Some(t)]]
    IN  IF favor_complainant
        THEN Ok([s1 EXCEPT !.transaction[b] = [@ EXCEPT !.status = "Refunded",
                                                      !.completed_at = Some(t)]])
        ELSE Ok([s1 EXCEPT !.transaction[b] = [@ EXCEPT !.status = "Completed"]])

resolve_dispute(s, t, b, favor_complainant) ==
    IF b \notin DOMAIN s.transaction \/ b \notin DOMAIN s.dispute
    THEN Err(s, "AccountNotInitialized")
    ELSE IF s.dispute[b].status # "UnderReview"
    THEN Err(s, "InvalidDisputeStatus")
    ELSE
    LET s1 == [s EXCEPT !.dispute[b] = [@ EXCEPT !.status = "Resolved",
                                               !.resolved_at = Some(t)]]
    IN  IF favor_complainant
        THEN Ok([s1 EXCEPT !.transaction[b] = [@ EXCEPT !.status = "Refunded",
                                                      !.completed_at = Some(t)]])
        ELSE Ok([s1 EXCEPT !.transaction[b] = [@ EXCEPT !.status = "Completed"]])

(* release_escrow, without the check of the release time.                  *)
release_escrow_untimed(s, t, b) ==
    IF b \notin DOMAIN s.transaction \/ Seller \notin DOMAIN s.escrow
    THEN Err(s, "AccountNotInitialized")
    ELSE IF s.escrow[Seller].status # "Active"
    THEN Err(s, "InvalidEscrowState")
    ELSE
    LET s1 == [s EXCEPT !.escrow[Seller] = [@ EXCEPT !.status = "Released"]]
    IN  TransferCurrency(s1, EscrowCustody, Seller, s1.escrow[Seller].amount)

(* release_escrow, also booking the transaction as Completed.              *)
release_escrow_booking(s, t, b) ==
    IF b \notin DOMAIN s.transaction \/ Seller \notin DOMAIN s.escrow
    THEN Err(s, "AccountNotInitialized")
    ELSE IF s.escrow[Seller].status # "Active"
    THEN Err(s, "InvalidEscrowState")
    ELSE IF ~(t >= s.escrow[Seller].release_time)
    THEN Err(s, "RefundPeriodNotElapsed")
    ELSE
    LET s1 == [s EXCEPT !.escrow[Seller] = [@ EXCEPT !.status = "Released"],
                        !.transaction[b] = [@ EXCEPT !.status = "Completed",
                                                     !.completed_at = Some(t)]]
    IN  TransferCurrency(s1, EscrowCustody, Seller, s1.escrow[Seller].amount)

release_escrow(s, t, b) ==
    IF b \notin DOMAIN s.transaction \/ Seller \notin DOMAIN s.escrow
    THEN Err(s, "AccountNotInitialized")
    ELSE IF s.escrow[Seller].status # "Active"
    THEN Err(s, "InvalidEscrowState")
    ELSE IF ~(t >= s.escrow[Seller].release_time)
    THEN Err(s, "RefundPeriodNotElapsed")
    ELSE
    LET s1 == [s EXCEPT !.escrow[Seller] = [@ EXCEPT !.status = "Released"]]
    IN  TransferCurrency(s1, EscrowCustody, Seller, s1.escrow[Seller].amount)

(* cancel_listing, without the write of the Delisted status.               *)
cancel_listing_unflagged(s, agent_mint) ==
    IF Seller \notin DOMAIN s.listing \/ Seller \notin DOMAIN s.escrow
    THEN Err(s, "AccountNotInitialized")
    ELSE IF s.listing[Seller].status # "Active"
    THEN Err(s, "ListingNotActive")
    ELSE TransferNFT(s, agent_mint, EscrowCustody, Seller)

cancel_listing(s, agent_mint) ==
    IF Seller \notin DOMAIN s.listing \/ Seller \notin DOMAIN s.escrow
    THEN Err(s, "AccountNotInitialized")
    ELSE IF s.listing[Seller].status # "Active"
    THEN Err(s, "ListingNotActive")
    ELSE
    LET s1 == [s EXCEPT !.listing[Seller] = [@ EXCEPT !.status = "Delisted"]]
    IN  TransferNFT(s1, agent_mint, EscrowCustody, Seller)

----------------------------------------------------------------------------
(* One instruction: a handler that returns Err leaves every account as it  *)
(* was (the instruction is aborted as a whole); one that returns Ok(())    *)
(* leaves its writes.  lastCall, sold and paid observe the call.           *)

(* Commit, keeping the writes a handler made before it returned Err.       *)
CommitPartial(r) ==
    /\ listing' = r.s.listing
    /\ escrow' = r.s.escrow
    /\ transaction' = r.s.transaction
    /\ dispute' = r.s.dispute
    /\ currency' = r.s.currency
    /\ nft' = r.s.nft

Commit(r) ==
    IF r.err = "Ok"
    THEN /\ listing' = r.s.listing
         /\ escrow' = r.s.escrow
         /\ transaction' = r.s.transaction
         /\ dispute' = r.s.dispute
         /\ currency' = r.s.currency
         /\ nft' = r.s.nft
    ELSE UNCHANGED progVars

Call(op, who, mint, r) ==
    /\ Commit(r)
    /\ lastCall' = [op |-> op, who |-> who, mint |-> mint, err |-> r.err]
    /\ sold' = IF r.err # "Ok" THEN sold
               ELSE IF op = "create_listing" THEN FALSE
               ELSE IF op = "purchase_agent" THEN TRUE
               ELSE sold
    /\ paid' = IF r.err # "Ok" THEN paid
               ELSE IF op = "create_listing" THEN 0
               ELSE IF op \in {"complete_transaction", "release_escrow"}
                    THEN paid + (r.s.currency[Seller] - currency[Seller])
               ELSE paid
    /\ UNCHANGED <<now, stakeVars>>

CreateListing ==
    \E mint \in Mints, agent_mint \in Mints, price \in Prices :
        Call("create_listing", Seller, agent_mint,
             create_listing(Accounts, now, mint, agent_mint, price))

PurchaseAgent ==
    \E b \in Buyers, agent_mint \in Mints :
        Call("purchase_agent", b, agent_mint,
             purchase_agent(Accounts, now, b, agent_mint))

CompleteTransaction ==
    \E b \in Buyers :
        Call("complete_transaction", b, NoMint,
             complete_transaction(Accounts, now, b))

FileDispute ==
    \E b \in Buyers : \E complainant \in {b, Seller} :
        Call("file_dispute", b, NoMint,
             file_dispute(Accounts, now, b, complainant))

ResolveDispute ==
    \E b \in Buyers, favor_complainant \in BOOLEAN :
        Call("resolve_dispute", b, NoMint,
             resolve_dispute(Accounts, now, b, favor_complainant))

ReleaseEscrow ==
    \E b \in Buyers :
        Call("release_escrow", b, NoMint,
             release_escrow(Accounts, now, b))

CancelListing ==
    \E agent_mint \in Mints :
        Call("cancel_listing", Seller, agent_mint,
             cancel_listing(Accounts, agent_mint))

(* The clock oracle: monotonic.  It advances by the dispute period or by   *)
(* the rest of the release period, so that every deadline of a purchase    *)
(* is met exactly.                                                         *)
TickSteps == {DISPUTE_PERIOD, ESCROW_RELEASE_PERIOD - DISPUTE_PERIOD}

Tick ==
    \E d \in TickSteps :
    /\ now + d <= MaxDays * DAY
    /\ now' = now + d
    /\ lastCall' = [op |-> "clock", who |-> Seller, mint |-> NoMint, err |-> "Ok"]
    /\ UNCHANGED <<progVars, sold, paid, stakeVars>>

Init ==
    /\ now = 0
    /\ listing = <<>>
    /\ escrow = <<>>
    /\ transaction = <<>>
    /\ dispute = <<>>
    /\ currency = [h \in Holders |-> IF h \in Buyers THEN InitialFunds ELSE 0]
    /\ nft = [m \in Mints |-> Seller]
    /\ lastCall = [op |-> "init", who |-> Seller, mint |-> NoMint, err |-> "Ok"]
    /\ sold = FALSE
    /\ paid = 0
    /\ stake_account = <<>>
    /\ token = [h \in TokenHolders |->
                  IF h = User THEN UserTokens ELSE VaultReserve]
    /\ stakeCall = [op |-> "init", amount |-> 0, err |-> "Ok"]

Next ==
    \/ CreateListing
    \/ PurchaseAgent
    \/ CompleteTransaction
    \/ FileDispute
    \/ ResolveDispute
    \/ ReleaseEscrow
    \/ CancelListing
    \/ Tick

Spec == Init /\ [][Next]_vars

(* The dispute review that the instruction set leaves to an outside        *)
(* process: a Filed dispute is taken UnderReview.  SpecReview adds it, to  *)
(* reach the states in which resolve_dispute passes its check.             *)
BeginReview ==
    \E b \in DOMAIN dispute :
        /\ dispute[b].status = "Filed"
        /\ dispute' = [dispute EXCEPT ![b] = [@ EXCEPT !.status = "UnderReview"]]
        /\ lastCall' = [op |-> "begin_review", who |-> b, mint |-> NoMint,
                        err |-> "Ok"]
        /\ UNCHANGED <<now, listing, escrow, transaction, currency, nft,
                       sold, paid, stakeVars>>

NextReview == Next \/ BeginReview

SpecReview == Init /\ [][NextReview]_vars

----------------------------------------------------------------------------
(* The axiom-staking program: one StakeAccount of one user and the shared  *)
(* vault.  The handlers are operators on the StakeAccounts bundle, as      *)
(* above; an instruction installs the writes of a handler that returns Ok. *)

StakeAccounts == [stake_account |-> stake_account, token |-> token]

HasStake(s) == s.stake_account # <<>>

(* token::transfer of the token program: fails when the source is short.   *)
token_transfer(s, from, to, amount) ==
    IF s.token[from] < amount
    THEN Err(s, "TokenInsufficientFunds")
    ELSE Ok([s EXCEPT !.token[from] = @ - amount,
                      !.token[to] = @ + amount])

initialize_stake_account(s, t) ==
    IF HasStake(s)
    THEN Err(s, "AccountAlreadyInUse")
    ELSE Ok([s EXCEPT !.stake_account = [owner |-> User,
                                         staked_amount |-> 0,
                                         reputation_score |-> 100,
                                         last_update |-> t,
                                         active_agents |-> 0,
                                         is_frozen |-> FALSE,
                                         frozen_at |-> None]])

(* staked_amount is a u64; the sum staked never exceeds the vault balance, *)
(* itself a u64 of the token program, so += meets no overflow.             *)
stake_tokens(s, t, amount) ==
    IF ~HasStake(s)
    THEN Err(s, "AccountNotInitialized")
    ELSE
    LET r1 == token_transfer(s, User, Vault, amount)
    IN  IF r1.err # "Ok" THEN r1
        ELSE Ok([r1.s EXCEPT !.stake_account.staked_amount = @ + amount,
                             !.stake_account.last_update = t])

(* unstake_tokens, without the check of the staked balance.                *)
unstake_tokens_unchecked(s, amount) ==
    IF ~HasStake(s)
    THEN Err(s, "AccountNotInitialized")
    ELSE IF s.stake_account.is_frozen
    THEN Err(s, "StakeFrozen")
    ELSE IF ~(s.stake_account.active_agents = 0)
    THEN Err(s, "ActiveAgentsExist")
    ELSE
    LET r1 == token_transfer(s, Vault, User, amount)
    IN  IF r1.err # "Ok" THEN r1
        ELSE Ok([r1.s EXCEPT !.stake_account.staked_amount = @ - amount])

(* unstake_tokens, without the check of the active agents.                 *)
unstake_tokens_active(s, amount) ==
    IF ~HasStake(s)
    THEN Err(s, "AccountNotInitialized")
    ELSE IF ~(s.stake_account.staked_amount >= amount)
    THEN Err(s, "InsufficientFunds")
    ELSE IF s.stake_account.is_frozen
    THEN Err(s, "StakeFrozen")
    ELSE
    LET r1 == token_transfer(s, Vault, User, amount)
    IN  IF r1.err # "Ok" THEN r1
        ELSE Ok([r1.s EXCEPT !.stake_account.staked_amount = @ - amount])

unstake_tokens(s, amount) ==
    IF ~HasStake(s)
    THEN Err(s, "AccountNotInitialized")
    ELSE IF ~(s.stake_account.staked_amount >= amount)
    THEN Err(s, "InsufficientFunds")
    ELSE IF s.stake_account.is_frozen
    THEN Err(s, "StakeFrozen")
    ELSE IF ~(s.stake_account.active_agents = 0)
    THEN Err(s, "ActiveAgentsExist")
    ELSE
    LET r1 == token_transfer(s, Vault, User, amount)
    IN  IF r1.err # "Ok" THEN r1
        ELSE Ok([r1.s EXCEPT !.stake_account.staked_amount = @ - amount])

freeze_stake(s, t) ==
    IF ~HasStake(s)
    THEN Err(s, "AccountNotInitialized")
    ELSE IF s.stake_account.is_frozen
    THEN Err(s, "StakeAlreadyFrozen")
    ELSE Ok([s EXCEPT !.stake_account.is_frozen = TRUE,
                      !.stake_account.frozen_at = Some(t)])

(* deploy_agent, without the check of the frozen flag.                     *)
deploy_agent_thawed(s, overflow_checks) ==
    IF ~HasStake(s)
    THEN Err(s, "AccountNotInitialized")
    ELSE IF ~(s.stake_account.staked_amount >= MIN_AGENT_STAKE)
    THEN Err(s, "InsufficientStakeForAgent")
    ELSE IF s.stake_account.active_agents + 1 >= U8 /\ overflow_checks
    THEN Err(s, "ArithmeticOverflow")
    ELSE Ok([s EXCEPT !.stake_account.active_agents = (@ + 1) % U8])

(* active_agents += 1 on a u8: at 255 the instruction panics when the      *)
(* build checks overflow and wraps to 0 when it does not; overflow_checks  *)
(* is that choice of the build.                                            *)
deploy_agent(s, overflow_checks) ==
    IF ~HasStake(s)
    THEN Err(s, "AccountNotInitialized")
    ELSE IF ~(s.stake_account.staked_amount >= MIN_AGENT_STAKE)
    THEN Err(s, "InsufficientStakeForAgent")
    ELSE IF s.stake_account.is_frozen
    THEN Err(s, "StakeFrozen")
    ELSE IF s.stake_account.active_agents + 1 >= U8 /\ overflow_checks
    THEN Err(s, "ArithmeticOverflow")
    ELSE Ok([s EXCEPT !.stake_account.active_agents = (@ + 1) % U8])

undeploy_agent(s) ==
    IF ~HasStake(s)
    THEN Err(s, "AccountNotInitialized")
    ELSE IF ~(s.stake_account.active_agents > 0)
    THEN Err(s, "NoActiveAgents")
    ELSE Ok([s EXCEPT !.stake_account.active_agents = @ - 1])

StakeCall(op, amount, r) ==
    /\ IF r.err = "Ok"
       THEN /\ stake_account' = r.s.stake_account
            /\ token' = r.s.token
       ELSE UNCHANGED <<stake_account, token>>
    /\ stakeCall' = [op |-> op, amount |-> amount, err |-> r.err]
    /\ UNCHANGED <<now, progVars, lastCall, sold, paid>>

InitializeStakeAccount ==
    StakeCall("initialize_stake_account", 0,
              initialize_stake_account(StakeAccounts, now))

StakeTokens ==
    \E amount \in StakeAmounts :
        StakeCall("stake_tokens", amount,
                  stake_tokens(StakeAccounts, now, amount))

UnstakeTokens ==
    \E amount \in StakeAmounts :
        StakeCall("unstake_tokens", amount,
                  unstake_tokens(StakeAccounts, amount))

FreezeStake ==
    StakeCall("freeze_stake", 0, freeze_stake(StakeAccounts, now))

DeployAgent ==
    \E overflow_checks \in BOOLEAN :
        StakeCall("deploy_agent", 0, deploy_agent(StakeAccounts, overflow_checks))

UndeployAgent ==
    StakeCall("undeploy_agent", 0, undeploy_agent(StakeAccounts))

NextStaking ==
    \/ InitializeStakeAccount
    \/ StakeTokens
    \/ UnstakeTokens
    \/ FreezeStake
    \/ DeployAgent
    \/ UndeployAgent

SpecStaking == Init /\ [][NextStaking]_vars

----------------------------------------------------------------------------
(* Shorthands for the claims. *)

HasListing == Seller \in DOMAIN listing
HasEscrow == Seller \in DOMAIN escrow
Succeeded(op) == lastCall.op = op /\ lastCall.err = "Ok"

(* C1: over any interleaving of complete_transaction and release_escrow on *)
(* one escrow, the currency moved from escrow custody to the seller never  *)
(* exceeds escrow.amount in sum (it is released at most once).             *)
C1_ReleasedAtMostOnce ==
    HasEscrow => paid <= escrow[Seller].amount

(* C2: once a purchase_agent has succeeded on the listing, every later     *)
(* purchase_agent on it fails and moves neither currency nor an asset.     *)
C2_NoDoublePurchase ==
    [][(sold /\ lastCall'.op = "purchase_agent")
          => (lastCall'.err # "Ok" /\ UNCHANGED <<currency, nft>>)]_vars

(* C3: purchase_agent and cancel_listing exclude each other through the    *)
(* listing status: a successful purchase_agent leaves the listing not      *)
(* Active, a cancel_listing after it fails with ListingNotActive, and a    *)
(* purchase_agent on a listing that is not Active fails with               *)
(* ListingNotActive; the failing call moves no asset.                      *)
C3_PurchaseCancelExclusive ==
    [][/\ (lastCall'.op = "purchase_agent" /\ lastCall'.err = "Ok")
            => listing'[Seller].status # "Active"
       /\ (sold /\ lastCall'.op = "cancel_listing")
            => (lastCall'.err = "ListingNotActive" /\ UNCHANGED nft)
       /\ (HasListing /\ HasEscrow /\ listing[Seller].status # "Active"
              /\ lastCall'.op = "purchase_agent")
            => (lastCall'.err = "ListingNotActive" /\ UNCHANGED nft)]_vars

(* C4: of complete_transaction and release_escrow on one escrow, the call  *)
(* that follows the other's success fails: release_escrow with             *)
(* InvalidEscrowState, complete_transaction with InvalidEscrowState or     *)
(* TransactionAlreadyCompleted, and neither changes a record.              *)
C4_SecondReleaseFails ==
    [][/\ (/\ Succeeded("complete_transaction")
           /\ lastCall'.op = "release_escrow"
           /\ lastCall'.who \in DOMAIN transaction)
            => (lastCall'.err = "InvalidEscrowState" /\ UNCHANGED progVars)
       /\ (/\ Succeeded("release_escrow")
           /\ lastCall'.op = "complete_transaction"
           /\ lastCall'.who \in DOMAIN transaction)
            => (/\ lastCall'.err \in {"InvalidEscrowState",
                                      "TransactionAlreadyCompleted"}
                /\ UNCHANGED progVars)]_vars

(* What a successful complete_transaction(b) at time now leaves. *)
Completed(b) ==
    /\ lastCall'.err = "Ok"
    /\ transaction' = [transaction EXCEPT
                          ![b] = [@ EXCEPT !.status = "Completed",
                                           !.completed_at = Some(now)]]
    /\ escrow' = [escrow EXCEPT ![Seller] = [@ EXCEPT !.status = "Released"]]
    /\ currency' = [currency EXCEPT
                       ![EscrowCustody] = @ - escrow[Seller].amount,
                       ![Seller] = @ + escrow[Seller].amount]
    /\ UNCHANGED <<listing, dispute, nft>>

CompleteOnPending(b) ==
    /\ lastCall'.op = "complete_transaction"
    /\ lastCall'.who = b
    /\ b \in DOMAIN transaction
    /\ HasEscrow
    /\ transaction[b].status = "Pending"

C8_ResolveRefundsBuyer ==
    [][\A b \in Buyers :
         (/\ lastCall'.op = "resolve_dispute"
          /\ lastCall'.who = b
          /\ lastCall'.err = "Ok") =>
            IF transaction'[b].status = "Refunded"
            THEN currency'[b] = currency[b] + transaction[b].amount
            ELSE currency'[b] >= currency[b]]_vars

(* C9: once an escrow's status has left Active, no operation sets it back  *)
(* to Active.                                                              *)
C9_EscrowTerminal ==
    [][(HasEscrow /\ escrow[Seller].status # "Active")
          => escrow'[Seller].status # "Active"]_vars

(* C10: the listing's escrow binding never changes once set, and the bound *)
(* escrow's amount is 0 for as long as no purchase_agent has succeeded on  *)
(* the listing.                                                            *)
C10_OneEscrowZeroUntilPurchase ==
    [][/\ HasListing =>
            /\ Seller \in DOMAIN listing'
            /\ listing'[Seller].escrow_account = listing[Seller].escrow_account
       /\ (Seller \in DOMAIN listing' /\ ~sold') =>
            /\ listing'[Seller].escrow_account = Some(Seller)
            /\ escrow'[Seller].amount = 0]_vars

W10_RelistedBeforePurchase ==
    /\ Succeeded("create_listing")
    /\ transaction # <<>>
    /\ ~sold
    /\ escrow[Seller].amount = 0

(* C11: a successful purchase_agent at clock value t leaves a Pending      *)
(* transaction with created_at = t, escrow_release_time = t + 604800,      *)
(* dispute_deadline = t + 259200 and amount = listing.price, and an escrow *)
(* bound to that transaction with amount = listing.price and release_time  *)
(* = transaction.escrow_release_time.                                      *)
C11_PurchaseOpensTransaction ==
    [][\A b \in Buyers :
         (/\ lastCall'.op = "purchase_agent"
          /\ lastCall'.who = b
          /\ lastCall'.err = "Ok") =>
            /\ transaction'[b].status = "Pending"
            /\ transaction'[b].buyer = b
            /\ transaction'[b].created_at = now
            /\ transaction'[b].completed_at = None
            /\ transaction'[b].escrow_release_time = now + 604800
            /\ transaction'[b].dispute_deadline = now + 259200
            /\ transaction'[b].amount = listing[Seller].price
            /\ escrow'[Seller].transaction = b
            /\ escrow'[Seller].amount = listing[Seller].price
            /\ escrow'[Seller].release_time = transaction'[b].escrow_release_time]_vars

W11_PurchasedLater ==
    /\ Succeeded("purchase_agent")
    /\ now > 0
    /\ transaction[lastCall.who].created_at = now
    /\ escrow[Seller].release_time = now + 604800

(* C12: file_dispute and complete_transaction exclude each other on one    *)
(* transaction: in no state would both succeed for the same transaction,   *)
(* and on a Disputed transaction complete_transaction fails.               *)
C12_DisputeCompleteExclusive ==
    [][\A b \in Buyers :
         /\ ~(/\ complete_transaction(Accounts, now, b).err = "Ok"
              /\ \E c \in {b, Seller} :
                    file_dispute(Accounts, now, b, c).err = "Ok")
         /\ (/\ b \in DOMAIN transaction
             /\ transaction[b].status = "Disputed"
             /\ lastCall'.op = "complete_transaction"
             /\ lastCall'.who = b) =>
               (/\ lastCall'.err = "TransactionAlreadyCompleted"
                /\ UNCHANGED progVars)]_vars

W12_CompleteAfterDispute ==
    /\ lastCall.op = "complete_transaction"
    /\ lastCall.err = "TransactionAlreadyCompleted"
    /\ lastCall.who \in DOMAIN dispute
    /\ transaction[lastCall.who].status = "Disputed"

(* C13: file_dispute fails, creating no dispute and leaving the            *)
(* transaction as it was, whenever the transaction is not Completed or     *)
(* now > dispute_deadline; when it is Completed and now <= dispute_deadline *)
(* it creates a Dispute that is Filed with respondent = transaction.seller *)
(* and sets the transaction Disputed.                                      *)
C13_FileDispute ==
    [][\A b \in Buyers :
         (/\ lastCall'.op = "file_dispute"
          /\ lastCall'.who = b
          /\ b \in DOMAIN transaction) =>
            IF transaction[b].status # "Completed"
               \/ now > transaction[b].dispute_deadline
            THEN /\ lastCall'.err # "Ok"
                 /\ UNCHANGED progVars
            ELSE /\ lastCall'.err = "Ok"
                 /\ b \in DOMAIN dispute'
                 /\ dispute'[b].status = "Filed"
                 /\ dispute'[b].transaction = b
                 /\ dispute'[b].respondent = transaction[b].seller
                 /\ dispute'[b].created_at = now
                 /\ \A o \in DOMAIN dispute \ {b} : dispute'[o] = dispute[o]
                 /\ transaction' = [transaction EXCEPT ![b].status = "Disputed"]
                 /\ UNCHANGED <<listing, escrow, currency, nft>>]_vars

(* A dispute filed exactly at the deadline. *)
W13_FiledAtDeadline ==
    /\ Succeeded("file_dispute")
    /\ now = transaction[lastCall.who].dispute_deadline
    /\ dispute[lastCall.who].status = "Filed"

(* A dispute refused on a transaction that is still Pending, after the     *)
(* deadline.                                                               *)
W13_RefusedWhilePending ==
    /\ lastCall.op = "file_dispute"
    /\ lastCall.err = "TransactionAlreadyCompleted"
    /\ lastCall.who \in DOMAIN transaction
    /\ transaction[lastCall.who].status = "Pending"
    /\ now > transaction[lastCall.who].dispute_deadline

(* C14: a successful create_listing leaves the listing Active and bound to *)
(* its paired escrow, the escrow Active with amount 0 and no transaction   *)
(* bound, and moves exactly one unit of the asset from seller custody into *)
(* escrow custody.                                                         *)
C14_CreateListing ==
    [][(lastCall'.op = "create_listing" /\ lastCall'.err = "Ok") =>
          /\ listing'[Seller].status = "Active"
          /\ listing'[Seller].seller = Seller
          /\ listing'[Seller].escrow_account = Some(Seller)
          /\ escrow'[Seller].status = "Active"
          /\ escrow'[Seller].amount = 0
          /\ escrow'[Seller].transaction = DefaultPubkey
          /\ nft[lastCall'.mint] = Seller
          /\ nft' = [nft EXCEPT ![lastCall'.mint] = EscrowCustody]
          /\ UNCHANGED <<transaction, dispute, currency>>]_vars

(* A listing created again over an escrow that a purchase had bound.       *)
W14_CreatedOverBoundEscrow ==
    /\ Succeeded("create_listing")
    /\ transaction # <<>>
    /\ currency[EscrowCustody] > 0
    /\ escrow[Seller].transaction = DefaultPubkey
    /\ nft[lastCall.mint] = EscrowCustody

(* What a successful release_escrow leaves: the escrow Released, its       *)
(* amount moved from escrow custody to the seller, nothing else touched.   *)
Released ==
    /\ escrow' = [escrow EXCEPT ![Seller].status = "Released"]
    /\ currency' = [currency EXCEPT
                       ![EscrowCustody] = @ - escrow[Seller].amount,
                       ![Seller] = @ + escrow[Seller].amount]
    /\ UNCHANGED <<listing, transaction, dispute, nft>>

ReleaseCalled ==
    /\ lastCall'.op = "release_escrow"
    /\ lastCall'.who \in DOMAIN transaction
    /\ HasEscrow

(* C15: release_escrow changes only the escrow status (Active to Released) *)
(* and the currency balances of escrow and seller custody, leaving the     *)
(* transaction, the listing and any dispute unchanged; it fails with       *)
(* InvalidEscrowState when escrow.status is not Active and, the checks     *)
(* being made in that order, with RefundPeriodNotElapsed when the escrow   *)
(* is Active and now < escrow.release_time.                                *)
C15_ReleaseEscrow ==
    [][ReleaseCalled =>
          /\ lastCall'.err = "Ok" => (escrow[Seller].status = "Active" /\ Released)
          /\ lastCall'.err # "Ok" => UNCHANGED progVars
          /\ escrow[Seller].status # "Active"
                => lastCall'.err = "InvalidEscrowState"
          /\ (escrow[Seller].status = "Active" /\ now < escrow[Seller].release_time)
                => lastCall'.err = "RefundPeriodNotElapsed"]_vars

(* The escrow released with its price while the transaction stays Pending. *)
W15_ReleasedTransactionPending ==
    /\ Succeeded("release_escrow")
    /\ escrow[Seller].status = "Released"
    /\ escrow[Seller].amount > 0
    /\ currency[Seller] >= escrow[Seller].amount
    /\ transaction[lastCall.who].status = "Pending"

(* C16: under the monotonic clock file_dispute never succeeds (a           *)
(* transaction is Completed only after its dispute_deadline), so no        *)
(* Dispute is ever created and no transaction is ever Disputed.            *)
C16_NoDisputeEver ==
    /\ dispute = <<>>
    /\ \A b \in DOMAIN transaction : transaction[b].status # "Disputed"

(* C17: no operation moves a dispute to UnderReview, so resolve_dispute    *)
(* always fails (with InvalidDisputeStatus whenever the dispute exists),   *)
(* no dispute is ever Resolved and no transaction ever Refunded.           *)
C17_ResolveNeverSucceeds ==
    [][/\ \A b \in DOMAIN dispute' : dispute'[b].status = "Filed"
       /\ \A b \in DOMAIN transaction' : transaction'[b].status # "Refunded"
       /\ lastCall'.op = "resolve_dispute" =>
            /\ lastCall'.err # "Ok"
            /\ lastCall'.who \in DOMAIN dispute
                  => lastCall'.err = "InvalidDisputeStatus"]_vars

W17_ResolveRefusedOnFiled ==
    /\ lastCall.op = "resolve_dispute"
    /\ lastCall.err = "InvalidDisputeStatus"
    /\ lastCall.who \in DOMAIN dispute
    /\ dispute[lastCall.who].status = "Filed"

(* C18: the seller's currency balance never increases (and escrow custody  *)
(* never pays out) at a clock value earlier than the bound transaction's   *)
(* created_at + 7 days; a successful purchase_agent puts the price in      *)
(* escrow custody and the asset with the buyer, who keeps it.              *)
C18_SellerPaidAfterLock ==
    [][/\ (\/ currency'[Seller] > currency[Seller]
            \/ currency'[EscrowCustody] < currency[EscrowCustody])
          => /\ HasEscrow
             /\ escrow[Seller].transaction \in DOMAIN transaction
             /\ now >= transaction[escrow[Seller].transaction].created_at
                          + ESCROW_RELEASE_PERIOD
       /\ (lastCall'.op = "purchase_agent" /\ lastCall'.err = "Ok")
          => /\ currency'[Seller] = currency[Seller]
             /\ currency'[EscrowCustody]
                   = currency[EscrowCustody] + listing[Seller].price
             /\ nft'[lastCall'.mint] = lastCall'.who
       /\ \A m \in Mints : nft[m] \in Buyers => nft'[m] = nft[m]]_vars

W18_ReleasedToSellerAfterLock ==
    /\ Succeeded("release_escrow")
    /\ HasEscrow
    /\ escrow[Seller].transaction \in DOMAIN transaction
    /\ now = transaction[escrow[Seller].transaction].created_at
                + ESCROW_RELEASE_PERIOD
    /\ currency[Seller] = escrow[Seller].amount
    /\ currency[Seller] > 0
    /\ \E m \in Mints : nft[m] = escrow[Seller].transaction

(* C19: a transaction with status Completed has its bound escrow in status *)
(* Released.                                                               *)
C19_CompletedImpliesReleased ==
    \A b \in DOMAIN transaction :
        transaction[b].status = "Completed"
            => (HasEscrow /\ escrow[Seller].status = "Released")

(* C20: an escrow with status Released has a transaction bound to it       *)
(* (release_escrow does not succeed on an escrow fresh from                *)
(* create_listing).                                                        *)
C20_ReleasedHasTransaction ==
    (HasEscrow /\ escrow[Seller].status = "Released")
        => escrow[Seller].transaction # DefaultPubkey

(* C21: a listing with status Active is backed by its asset: the listed    *)
(* asset is held in escrow custody, never by a buyer or the seller.        *)
C21_ActiveListingBacked ==
    (HasListing /\ listing[Seller].status = "Active")
        => nft[listing[Seller].mint] = EscrowCustody

(* Shorthands for the staking claims. *)
Staked == stake_account # <<>>
StakeCalled(op) == stakeCall'.op = op /\ Staked

(* C22: unstake_tokens(amount) succeeds only when staked_amount >= amount, *)
(* the stake is not frozen and active_agents = 0; on success staked_amount *)
(* decreases by exactly amount (and the vault pays the user); on any       *)
(* failure the stake account is unchanged; staked_amount never goes below  *)
(* 0.                                                                      *)
C22_UnstakeTokens ==
    [][/\ StakeCalled("unstake_tokens") =>
            /\ stakeCall'.err = "Ok" =>
                  /\ stake_account.staked_amount >= stakeCall'.amount
                  /\ ~stake_account.is_frozen
                  /\ stake_account.active_agents = 0
                  /\ stake_account' =
                        [stake_account EXCEPT
                            !.staked_amount = @ - stakeCall'.amount]
                  /\ token' = [token EXCEPT
                                  ![Vault] = @ - stakeCall'.amount,
                                  ![User] = @ + stakeCall'.amount]
            /\ stakeCall'.err # "Ok" =>
                  /\ UNCHANGED <<stake_account, token>>
                  /\ stakeCall'.err \in
                        {"InsufficientFunds", "StakeFrozen", "ActiveAgentsExist"}
            /\ stake_account.staked_amount < stakeCall'.amount
                  => stakeCall'.err = "InsufficientFunds"
       /\ stake_account' # <<>> => stake_account'.staked_amount >= 0]_vars

W22_UnstakedPart ==
    /\ stakeCall.op = "unstake_tokens"
    /\ stakeCall.err = "Ok"
    /\ stakeCall.amount = 50
    /\ stake_account.staked_amount = 50
    /\ token[User] = UserTokens - 50

(* C23 as stated: while is_frozen, unstake_tokens and deploy_agent fail    *)
(* with StakeFrozen and freeze_stake with StakeAlreadyFrozen; a frozen     *)
(* stake stays frozen, its staked_amount never decreases and its           *)
(* active_agents never increases.                                          *)
C23_Original ==
    [][(Staked /\ stake_account.is_frozen) =>
          /\ stakeCall'.op \in {"unstake_tokens", "deploy_agent"}
                => stakeCall'.err = "StakeFrozen"
          /\ stakeCall'.op = "freeze_stake"
                => stakeCall'.err = "StakeAlreadyFrozen"
          /\ stake_account'.is_frozen
          /\ stake_account'.staked_amount >= stake_account.staked_amount
          /\ stake_account'.active_agents <= stake_account.active_agents]_vars

(* C23, amended: while is_frozen, unstake_tokens and deploy_agent fail,    *)
(* with StakeFrozen when the stake passes the check of the balance that    *)
(* comes first (staked_amount >= amount, staked_amount >= the minimum      *)
(* deployment stake) and with InsufficientFunds or                         *)
(* InsufficientStakeForAgent when it does not; freeze_stake fails with     *)
(* StakeAlreadyFrozen; a frozen stake stays frozen, its staked_amount      *)
(* never decreases and its active_agents never increases.                  *)
C23_FrozenStake ==
    [][(Staked /\ stake_account.is_frozen) =>
          /\ stakeCall'.op = "unstake_tokens" =>
                stakeCall'.err =
                   IF stake_account.staked_amount >= stakeCall'.amount
                   THEN "StakeFrozen" ELSE "InsufficientFunds"
          /\ stakeCall'.op = "deploy_agent" =>
                stakeCall'.err =
                   IF stake_account.staked_amount >= MIN_AGENT_STAKE
                   THEN "StakeFrozen" ELSE "InsufficientStakeForAgent"
          /\ stakeCall'.op = "freeze_stake"
                => stakeCall'.err = "StakeAlreadyFrozen"
          /\ stake_account'.is_frozen
          /\ stake_account'.staked_amount >= stake_account.staked_amount
          /\ stake_account'.active_agents <= stake_account.active_agents]_vars

W23_DeployRefusedFrozen ==
    /\ Staked
    /\ stake_account.is_frozen
    /\ stakeCall.op = "deploy_agent"
    /\ stakeCall.err = "StakeFrozen"
    /\ stake_account.staked_amount >= MIN_AGENT_STAKE
    /\ stake_account.active_agents > 0

(* C24: active_agents > 0 implies staked_amount >= the minimum deployment  *)
(* stake, and active_agents is never below 0.                              *)
C24_ActiveAgentsStaked ==
    Staked =>
        /\ stake_account.active_agents \in 0 .. (U8 - 1)
        /\ stake_account.active_agents > 0
              => stake_account.staked_amount >= MIN_AGENT_STAKE

W24_UnstakeRefusedActive ==
    /\ Staked
    /\ stake_account.active_agents > 0
    /\ stake_account.staked_amount = MIN_AGENT_STAKE
    /\ stakeCall.op = "unstake_tokens"
    /\ stakeCall.err = "ActiveAgentsExist"

====
